---- MODULE Spec2Model ----
(***************************************************************************)
(* A model of the Chip-8 interpreter of package cpu (src/cpu/cpu.go, the   *)
(* first file of that package: the byte-packed video memory, the stack in  *)
(* RAM at 0xEA0 and the Run/Resume/Halt/Step controller).                  *)
(*                                                                         *)
(* The machine is the record c (the fields of struct Chip8).  The callers  *)
(* of its exported methods are the threads of th: Resume() blocks in the   *)
(* run loop, so Halt() and Step() on a running machine come from another   *)
(* goroutine.  The code takes no lock, so every read and write of the      *)
(* struct is a step of its own thread and the steps interleave.            *)
(***************************************************************************)
EXTENDS Integers, Sequences, FiniteSets, TLC

VARIABLES
    c,        \* the Chip8 struct
    th,       \* per calling goroutine: the method it is in and where
    rom,      \* the program the callers hand to Run
    host,     \* "up", or the message of the panic that ended the process
    last,     \* history: the last cycle that executed an instruction
    shadow,   \* history: the CALLs not yet returned from, innermost last
    tk        \* history: what the timers were set to, and the timer phases since

vars == <<c, th, rom, host, last, shadow, tk>>

----------------------------------------------------------------------------
(* Program constants *)

stackAddress == 3744
videoMemoryAddress == 3840
highestMemoryAddress == 4095
eofInstruction == 0
programStartAddr == 512
MemorySize == 4096
KeyNone == 0

(* Bounds of the model *)

\* goroutines that call the machine, and method calls each of them issues
NThreads == 2
MaxCalls == 2
\* the history counters since and after stop counting here
HistoryCap == 3
\* the timer phases counted after a timer is set
TickCap == 64

----------------------------------------------------------------------------
(* Fixed-width arithmetic of Go's byte and uint16 *)

Pow2(k) == 2 ^ k

Byte(n) == n % 256

Word(n) == n % 65536

Bit(b, k) == (b \div Pow2(k)) % 2

AndByte(a, b) ==
    LET RECURSIVE f(_)
        f(k) == IF k = 8 THEN 0 ELSE Bit(a, k) * Bit(b, k) * Pow2(k) + f(k + 1)
    IN f(0)

OrByte(a, b) ==
    LET RECURSIVE f(_)
        f(k) == IF k = 8 THEN 0
                ELSE (IF Bit(a, k) + Bit(b, k) > 0 THEN Pow2(k) ELSE 0) + f(k + 1)
    IN f(0)

XorByte(a, b) ==
    LET RECURSIVE f(_)
        f(k) == IF k = 8 THEN 0
                ELSE ((Bit(a, k) + Bit(b, k)) % 2) * Pow2(k) + f(k + 1)
    IN f(0)

\* b >> k on a byte: a shift by the width or more gives 0
Shr(b, k) == IF k >= 8 THEN 0 ELSE b \div Pow2(k)

\* b << k on a byte: the bits shifted past bit 7 are lost
Shl(b, k) == IF k >= 8 THEN 0 ELSE (b * Pow2(k)) % 256

----------------------------------------------------------------------------
(* Memory.  The array memory [4096]byte is kept as the function from the   *)
(* addresses of its nonzero bytes to those bytes: a byte outside the        *)
(* function's domain is 0.  Rd and Wr are the array's index expressions.    *)

Addr == 0 .. (MemorySize - 1)

Rd(memory, a) == IF a \in DOMAIN memory THEN memory[a] ELSE 0

Wr(memory, a, b) ==
    IF b = 0
    THEN [x \in DOMAIN memory \ {a} |-> memory[x]]
    ELSE [x \in DOMAIN memory \cup {a} |-> IF x = a THEN b ELSE memory[x]]

\* The array that holds 0 everywhere
ZeroMemory == [x \in {} |-> 0]

fontSpriteData ==
    << 240, 144, 144, 144, 240,
        32,  96,  32,  32, 112,
       240,  16, 240, 128, 240,
       240,  16, 240,  16, 240,
       144, 144, 240,  16,  16,
       240, 128, 240,  16, 240,
       240, 128, 240, 144, 240,
       240,  16,  32,  64,  64,
       240, 144, 240, 144, 240,
       240, 144, 240,  16, 240,
       240, 144, 240, 144, 144,
       224, 144, 224, 144, 224,
       240, 128, 128, 128, 240,
       224, 144, 144, 144, 224,
       240, 128, 240, 128, 240,
       240, 128, 240, 128, 128 >>

\* memory[startAddress + i] = fontSpriteData[i] for i in startAddress .. startAddress+79
loadFontSprites(memory, startAddress) ==
    LET written == { startAddress + i :
                        i \in startAddress .. (startAddress + Len(fontSpriteData) - 1) }
        val(a) == IF a \in written THEN fontSpriteData[(a - startAddress) + 1]
                  ELSE Rd(memory, a)
    IN [a \in { x \in DOMAIN memory \cup written : val(x) # 0 } |-> val(a)]

\* reset() without  c.memory = [4096]byte{}
resetKeepsMemory(m) ==
    [m EXCEPT !.i = 0,
              !.v = [r \in 0 .. 15 |-> 0],
              !.dt = 0,
              !.st = 0,
              !.sp = stackAddress,
              !.memory = loadFontSprites(m.memory, 0),
              !.clock = FALSE,
              !.isStoppedFlag = TRUE,
              !.pc = programStartAddr]

\* reset(): every field back to its default; the speaker stays connected and is
\* not told anything; a new ticker is made, whose channel holds no tick yet
reset(m) ==
    [m EXCEPT !.i = 0,
              !.v = [r \in 0 .. 15 |-> 0],
              !.dt = 0,
              !.st = 0,
              !.sp = stackAddress,
              !.memory = loadFontSprites(ZeroMemory, 0),
              !.clock = FALSE,
              !.isStoppedFlag = TRUE,
              !.pc = programStartAddr]

\* NewChip8: a reset machine with the speaker connected
NewChip8 ==
    reset([pc |-> 0, i |-> 0, v |-> [r \in 0 .. 15 |-> 0], dt |-> 0, st |-> 0,
           sp |-> 0, memory |-> ZeroMemory, clock |-> FALSE,
           isStoppedFlag |-> FALSE, speaker |-> "silent"])

\* load(program) indexes memory at 0x200+i for every byte: a program that does
\* not fit makes the index run out of range
loadPanics(program) == programStartAddr + Len(program) > MemorySize

\* The loop of load writes byte after byte: when the index runs out of range
\* the bytes before it are in memory already
load(m, program) ==
    LET written == { programStartAddr + i : i \in 0 .. (Len(program) - 1) } \cap Addr
        val(a) == IF a \in written THEN program[(a - programStartAddr) + 1]
                  ELSE Rd(m.memory, a)
    IN [m EXCEPT !.memory =
            [a \in { x \in DOMAIN m.memory \cup written : val(x) # 0 } |-> val(a)]]

IsRunning(m) == ~m.isStoppedFlag

Halt(m) == IF IsRunning(m) THEN [m EXCEPT !.isStoppedFlag = TRUE] ELSE m

\* A readOpcode that would index only the high byte inside the array
readOpcodeHighOnly(m, addr) == addr >= MemorySize

readOpcodePanics(m, addr) == addr >= MemorySize \/ Word(addr + 1) >= MemorySize

readOpcode(m, addr) == Rd(m.memory, addr) * 256 + Rd(m.memory, Word(addr + 1))

----------------------------------------------------------------------------
(* Snapshot() and refreshScreen() *)

\* c.memory[lo:hi] is a slice of the array c.memory: it holds no bytes of its
\* own, only where it begins and ends in the array of the machine
Slice(lo, hi) == [lo |-> lo, hi |-> hi]

\* The bytes read through a slice when the array it points into holds memory
SliceBytes(memory, sl) == [k \in 1 .. (sl.hi - sl.lo) |-> Rd(memory, sl.lo + (k - 1))]

\* The Chip8State of Snapshot(): the registers and Memory are copied by value,
\* Stack and VideoMemory are slices of c.memory.  Speed, which the model of
\* the machine does not hold, is left out.
Snapshot(m) ==
    [PC |-> m.pc, I |-> m.i, V |-> m.v, DT |-> m.dt, ST |-> m.st,
     Stack |-> Slice(stackAddress, m.sp),
     Memory |-> m.memory,
     MemoryDiagram |-> "FIXME:NotImplemented",
     VideoMemory |-> Slice(videoMemoryAddress, highestMemoryAddress)]

\* The array refreshScreen() sends to videoOut: the bytes of the same slice
\* copied to the front of a zeroed [256]byte
refreshScreen(m) ==
    LET src == SliceBytes(m.memory, Slice(videoMemoryAddress, highestMemoryAddress))
    IN [k \in 1 .. 256 |-> IF k <= Len(src) THEN src[k] ELSE 0]

----------------------------------------------------------------------------
(* The sprite blitter on the byte-packed video memory *)

screenW == 64
screenH == 32

\* The left video byte's share of a sprite row that is not byte aligned.  Go
\* gives >> and % the same precedence and groups them from the left:
\* spriteByte >> x % 8 is (spriteByte >> x) % 8.
spriteLeftByte(spriteByte, x) == Shr(spriteByte, x) % 8

spriteRightByte(spriteByte, x) == Shl(spriteByte, 8 - (x % 8))

\* A yOffset computed in uint16, where the product does not wrap at 256
yOffsetWide(y, i) == (y + i) * 8

\* yOffset := uint16((y + byte(i)) * 8): the sum and the product are bytes
yOffset(y, i) == Byte(Byte(y + i) * 8)

\* One iteration of the loop over the sprite's rows; i counts from 0.  The
\* result is the memory and the value the iteration assigns to occluded.
drawRow(memory, spriteByte, i, x, y) ==
    LET xOffset == x \div 8 IN
    IF x % 8 = 0
    THEN LET offset == videoMemoryAddress + yOffset(y, i) + xOffset
             screenByte == Rd(memory, offset)
         IN [memory |-> Wr(memory, offset, XorByte(spriteByte, screenByte)),
             occluded |-> AndByte(spriteByte, screenByte) # 0]
    ELSE LET left == spriteLeftByte(spriteByte, x)
             right == spriteRightByte(spriteByte, x)
             leftOffset == videoMemoryAddress + yOffset(y, i) + xOffset
             rightOffset == videoMemoryAddress + yOffset(y, i) + ((xOffset + 1) % 8)
             screenLeftByte == Rd(memory, leftOffset)
             screenRightByte == Rd(memory, rightOffset)
             afterLeft == Wr(memory, leftOffset, XorByte(left, screenLeftByte))
         IN [memory |-> Wr(afterLeft, rightOffset, XorByte(right, screenRightByte)),
             occluded |-> AndByte(left, screenLeftByte) # 0
                          \/ AndByte(right, screenRightByte) # 0]

\* What an iteration leaves in occluded, given what the earlier ones left
occludedAfterRow(before, thisRow) == thisRow

RECURSIVE drawRows(_, _, _, _, _, _)
drawRows(memory, occluded, sprite, k, x, y) ==
    IF k > Len(sprite)
    THEN [memory |-> memory, occluded |-> occluded]
    ELSE LET r == drawRow(memory, sprite[k], k - 1, x, y)
         IN \* an iteration is over, its flag assigned, before the next begins
            CASE r.occluded \in BOOLEAN ->
                drawRows(r.memory, occludedAfterRow(occluded, r.occluded),
                         sprite, k + 1, x, y)

\* drawSprite(sprite, x, y): the coordinates are first wrapped into the screen
drawSprite(memory, sprite, x, y) ==
    drawRows(memory, FALSE, sprite, 1, x % screenW, y % screenH)

----------------------------------------------------------------------------
(* The call stack, kept in RAM from stackAddress upwards, two bytes a slot *)

stackPushPanics(m) == m.sp >= MemorySize \/ Word(m.sp + 1) >= MemorySize

stackPush(m, addr) ==
    [m EXCEPT !.memory = Wr(Wr(m.memory, m.sp, addr \div 256),
                            Word(m.sp + 1), addr % 256),
              !.sp = Word(m.sp + 2)]

stackPopPanics(m) == m.sp >= MemorySize \/ Word(m.sp + 1) >= MemorySize

\* stackPop reads the two bytes at sp before it moves sp down, and leaves sp
\* alone when the stack is empty
stackPopValue(m) == Rd(m.memory, m.sp) * 256 + Rd(m.memory, Word(m.sp + 1))

stackPop(m) == IF m.sp > stackAddress THEN [m EXCEPT !.sp = m.sp - 2] ELSE m

\* The number of return addresses on the stack
Depth(m) == (m.sp - stackAddress) \div 2

----------------------------------------------------------------------------
(* exec: decode by the top nibble, then by the low nibble or the low byte *)

OpFirst(opcode) == opcode \div 4096
OpX(opcode) == (opcode \div 256) % 16
OpY(opcode) == (opcode \div 16) % 16
OpN(opcode) == opcode % 16
OpKK(opcode) == opcode % 256
OpNNN(opcode) == opcode % 4096

AdvancePC(m, k) == [m EXCEPT !.pc = Word(m.pc + k)]

\* c.v[x] = ... that reaches V0 whatever x is
SetV0(m, r, val) == [m EXCEPT !.v[0] = val]

SetV(m, r, val) == [m EXCEPT !.v[r] = val]

\* c.pc += 2 alone, without  if cond { c.pc += 2 }
SkipNever(m, cond) == AdvancePC(m, 2)

\* if cond { c.pc += 2 }; c.pc += 2
Skip(m, cond) == AdvancePC(m, IF cond THEN 4 ELSE 2)

\* case 0x0 with a CLS whose loop is  i < highestMemoryAddress, which leaves
\* the last byte of video memory out
exec0ShortCLS(m, opcode) ==
    IF opcode = 224
    THEN AdvancePC(
            [m EXCEPT !.memory =
                [a \in { x \in DOMAIN m.memory :
                            ~(x >= videoMemoryAddress /\ x < highestMemoryAddress) }
                    |-> m.memory[a]]], 2)
    ELSE [stackPop(m) EXCEPT !.pc = Word(stackPopValue(m) + 2)]

\* case 0x0
exec0(m, opcode) ==
    IF opcode = 224
    THEN AdvancePC(
            [m EXCEPT !.memory =
                [a \in { x \in DOMAIN m.memory :
                            ~(x >= videoMemoryAddress /\ x <= highestMemoryAddress) }
                    |-> m.memory[a]]], 2)
    ELSE \* 0x00ee: c.pc = c.stackPop(); c.pc += 2
         [stackPop(m) EXCEPT !.pc = Word(stackPopValue(m) + 2)]

\* case 0x8; opcode's low nibble is one of 0..7, E
exec8(m, opcode) ==
    LET x == OpX(opcode)
        y == OpY(opcode)
        last8 == OpN(opcode)
    IN CASE last8 = 0 -> AdvancePC(SetV(m, x, m.v[y]), 2)
         [] last8 = 1 -> AdvancePC(SetV(m, x, OrByte(m.v[x], m.v[y])), 2)
         [] last8 = 2 -> AdvancePC(SetV(m, x, AndByte(m.v[x], m.v[y])), 2)
         [] last8 = 3 -> AdvancePC(SetV(m, x, XorByte(m.v[x], m.v[y])), 2)
         [] last8 = 4 ->
                \* the carry test adds the register numbers, not their values
                LET m1 == IF x + y > 255 THEN SetV(m, 15, 1) ELSE m
                IN AdvancePC(SetV(m1, x, Byte(m1.v[x] + m1.v[y])), 2)
         [] last8 = 5 -> AdvancePC(SetV(m, x, Byte(m.v[x] - m.v[y] + 256)), 2)
         [] last8 = 6 ->
                LET m1 == SetV(m, 15, m.v[x] % 2)
                IN AdvancePC(SetV(m1, x, Shr(m1.v[x], 1)), 2)
         [] last8 = 7 ->
                LET m1 == SetV(m, 15, IF m.v[y] > m.v[x] THEN 1 ELSE 0)
                IN AdvancePC(SetV(m1, x, Byte(m1.v[x] - m1.v[y] + 256)), 2)
         [] OTHER ->
                LET m1 == SetV(m, 15, AndByte(m.v[x], 128))
                IN AdvancePC(SetV(m1, x, Shl(m1.v[x], 1)), 2)

\* case 0xE; key is what input.Poll() returns
execE(m, opcode, key) ==
    IF OpKK(opcode) = 158
    THEN Skip(m, key = m.v[OpX(opcode)])
    ELSE Skip(m, key # m.v[OpX(opcode)])

\* Fx55: for i := 0; i < x; i++ { memory[I+i] = v[i] }
RECURSIVE storeRegs(_, _, _)
storeRegs(m, k, x) ==
    IF k >= x THEN m
    ELSE storeRegs([m EXCEPT !.memory = Wr(m.memory, Word(m.i + k), m.v[k])], k + 1, x)

\* Fx65: for i := 0; i < x; i++ { v[i] = memory[I+i] }
RECURSIVE loadRegs(_, _, _)
loadRegs(m, k, x) ==
    IF k >= x THEN m
    ELSE loadRegs([m EXCEPT !.v[k] = Rd(m.memory, Word(m.i + k))], k + 1, x)

\* case 0xF with an Fx18 that does not call c.speaker.StartSound()
execFQuiet(m, opcode, key) ==
    LET x == OpX(opcode)
        lastTwo == OpKK(opcode)
    IN CASE lastTwo = 7 -> AdvancePC(SetV(m, x, m.dt), 2)
         [] lastTwo = 10 -> IF key # KeyNone THEN AdvancePC(SetV(m, x, key), 2) ELSE m
         [] lastTwo = 21 -> AdvancePC([m EXCEPT !.dt = m.v[x]], 2)
         [] lastTwo = 24 -> AdvancePC([m EXCEPT !.st = m.v[x]], 2)
         [] lastTwo = 30 -> AdvancePC([m EXCEPT !.i = Word(m.i + m.v[x])], 2)
         [] lastTwo = 41 -> AdvancePC([m EXCEPT !.i = Byte(m.v[x] * 5)], 2)
         [] lastTwo = 51 -> AdvancePC(m, 2)
         [] lastTwo = 85 -> AdvancePC(storeRegs(m, 0, x), 2)
         [] OTHER -> AdvancePC(loadRegs(m, 0, x), 2)

\* case 0xF
execF(m, opcode, key) ==
    LET x == OpX(opcode)
        lastTwo == OpKK(opcode)
    IN CASE lastTwo = 7 -> AdvancePC(SetV(m, x, m.dt), 2)
         [] lastTwo = 10 -> IF key # KeyNone THEN AdvancePC(SetV(m, x, key), 2) ELSE m
         [] lastTwo = 21 -> AdvancePC([m EXCEPT !.dt = m.v[x]], 2)
         [] lastTwo = 24 ->
                AdvancePC([m EXCEPT !.st = m.v[x], !.speaker = "StartSound"], 2)
         [] lastTwo = 30 -> AdvancePC([m EXCEPT !.i = Word(m.i + m.v[x])], 2)
         [] lastTwo = 41 -> AdvancePC([m EXCEPT !.i = Byte(m.v[x] * 5)], 2)
         [] lastTwo = 51 -> AdvancePC(m, 2)
         [] lastTwo = 85 -> AdvancePC(storeRegs(m, 0, x), 2)
         [] OTHER -> AdvancePC(loadRegs(m, 0, x), 2)

\* Dxyn reads the sprite with for i := c.i; i < c.i+n; i++, in uint16
spriteAddrs(m, n) ==
    IF Word(m.i + n) < m.i THEN {} ELSE m.i .. (m.i + n - 1)

spriteOf(m, n) ==
    IF spriteAddrs(m, n) = {} THEN << >>
    ELSE [k \in 1 .. n |-> Rd(m.memory, m.i + k - 1)]

execD(m, opcode) ==
    LET r == drawSprite(m.memory, spriteOf(m, OpN(opcode)),
                        m.v[OpX(opcode)], m.v[OpY(opcode)])
        m1 == [m EXCEPT !.memory = r.memory]
    IN AdvancePC(SetV(m1, 15, IF r.occluded THEN 1 ELSE 0), 2)

\* The bit patterns exec has a case for
Decodes(opcode) ==
    LET first == OpFirst(opcode) IN
    CASE first = 0 -> opcode \in {224, 238}
      [] first = 8 -> OpN(opcode) \in (0 .. 7) \cup {14}
      [] first = 14 -> OpKK(opcode) \in {158, 161}
      [] first = 15 -> OpKK(opcode) \in {7, 10, 21, 24, 30, 41, 51, 85, 101}
      [] OTHER -> TRUE

\* The panics of an exec whose index expressions through I were not checked
execPanicNotThroughI(m, opcode) ==
    IF ~Decodes(opcode) THEN "Unrecognized opcode"
    ELSE IF \/ opcode = 238 /\ stackPopPanics(m)
            \/ OpFirst(opcode) = 2 /\ stackPushPanics(m)
    THEN "index out of range"
    ELSE ""

\* The message of the panic exec ends in, or "" when it returns
execPanic(m, opcode) ==
    LET first == OpFirst(opcode)
        x == OpX(opcode)
    IN
    IF ~Decodes(opcode) THEN "Unrecognized opcode"
    ELSE IF \/ first = 0 /\ opcode = 238 /\ stackPopPanics(m)
            \/ first = 2 /\ stackPushPanics(m)
            \/ first = 13 /\ \E a \in spriteAddrs(m, OpN(opcode)) : a >= MemorySize
            \/ first = 15 /\ OpKK(opcode) \in {85, 101}
                          /\ \E k \in 0 .. (x - 1) : Word(m.i + k) >= MemorySize
    THEN "index out of range"
    ELSE ""

\* exec(opcode) when it returns; key and rnd are what the keyboard and the
\* random source give to the instructions that ask them
exec(m, opcode, key, rnd) ==
    LET first == OpFirst(opcode)
        x == OpX(opcode)
        y == OpY(opcode)
        kk == OpKK(opcode)
        addr == OpNNN(opcode)
    IN CASE first = 0 -> exec0(m, opcode)
         [] first = 1 -> [m EXCEPT !.pc = addr]
         [] first = 2 -> [stackPush(m, m.pc) EXCEPT !.pc = addr]
         [] first = 3 -> Skip(m, m.v[x] = kk)
         [] first = 4 -> Skip(m, m.v[x] # kk)
         [] first = 5 -> Skip(m, m.v[x] = m.v[y])
         [] first = 6 -> AdvancePC(SetV(m, x, kk), 2)
         [] first = 7 -> AdvancePC(SetV(m, x, Byte(m.v[x] + kk)), 2)
         [] first = 8 -> exec8(m, opcode)
         [] first = 9 -> Skip(m, m.v[x] # m.v[y])
         [] first = 10 -> AdvancePC([m EXCEPT !.i = addr], 2)
         [] first = 11 -> [m EXCEPT !.pc = Word(addr + m.v[0])]
         [] first = 12 -> AdvancePC(SetV(m, x, AndByte(rnd, kk)), 2)
         [] first = 13 -> execD(m, opcode)
         [] first = 14 -> execE(m, opcode, key)
         [] OTHER -> execF(m, opcode, key)

\* The instructions that poll the keyboard, and the one that draws a random byte
Polls(opcode) ==
    \/ OpFirst(opcode) = 14
    \/ OpFirst(opcode) = 15 /\ OpKK(opcode) = 10

Draws(opcode) == OpFirst(opcode) = 12

----------------------------------------------------------------------------
(* cycle(): the timers, then the fetch, then Halt on 0x0000 or exec *)

\* cycle()'s first half without the tests  c.dt > 0  and  c.st > 0: a byte at 0
\* goes to 255
cycleTimersWrap(m) ==
    LET st == Byte(m.st - 1)
    IN [m EXCEPT !.dt = Byte(m.dt - 1),
                 !.st = st,
                 !.speaker = IF st = 0 THEN "StopSound" ELSE m.speaker]

\* cycle()'s first half with StopSound() called after every decrement of ST,
\* not under  if c.st == 0
cycleTimersStopEach(m) ==
    LET m1 == IF m.dt > 0 THEN [m EXCEPT !.dt = m.dt - 1] ELSE m
    IN IF m1.st > 0
       THEN [m1 EXCEPT !.st = m1.st - 1, !.speaker = "StopSound"]
       ELSE m1

\* cycle()'s first half in a machine that holds the timers while the
\* instruction at PC is an Fx0A
cycleTimersHeldByWait(m) ==
    LET m1 == IF m.dt > 0 THEN [m EXCEPT !.dt = m.dt - 1] ELSE m
        waits == /\ ~readOpcodePanics(m, m.pc)
                 /\ OpFirst(readOpcode(m, m.pc)) = 15
                 /\ OpKK(readOpcode(m, m.pc)) = 10
    IN IF waits THEN m
       ELSE IF m1.st > 0
       THEN IF m1.st - 1 = 0
            THEN [m1 EXCEPT !.st = 0, !.speaker = "StopSound"]
            ELSE [m1 EXCEPT !.st = m1.st - 1]
       ELSE m1

\* The first half of cycle(): both timers count down, and the speaker is told
\* to stop when the sound timer reaches 0 on this cycle
cycleTimers(m) ==
    LET m1 == IF m.dt > 0 THEN [m EXCEPT !.dt = m.dt - 1] ELSE m
    IN IF m1.st > 0
       THEN IF m1.st - 1 = 0
            THEN [m1 EXCEPT !.st = 0, !.speaker = "StopSound"]
            ELSE [m1 EXCEPT !.st = m1.st - 1]
       ELSE m1

\* The second half of a cycle() that would go on to exec whatever it fetched
cycleExecNoEof(m, key, rnd) == exec(m, readOpcode(m, m.pc), key, rnd)

\* The second half of cycle() when it does not panic
cycleExec(m, key, rnd) ==
    LET opcode == readOpcode(m, m.pc)
    IN IF opcode = eofInstruction THEN Halt(m) ELSE exec(m, opcode, key, rnd)

\* The message of the panic the second half of cycle() ends in, or ""
cyclePanic(m) ==
    IF readOpcodePanics(m, m.pc) THEN "index out of range"
    ELSE IF readOpcode(m, m.pc) = eofInstruction THEN ""
    ELSE execPanic(m, readOpcode(m, m.pc))

\* Whether cycle()'s timer phase calls c.speaker.StopSound()
cycleStopsSound(m) ==
    cycleTimers([m EXCEPT !.speaker = "silent"]).speaker = "StopSound"

----------------------------------------------------------------------------
(* The programs the callers run *)

\* LD V0,x; LD V1,y; LD I,0x20C; DRW V0,V1,n twice; 0x0000; the sprite's bytes
DrawProgram(x, y, sprite) ==
    << 96, x, 97, y, 162, 12, 208, 16 + Len(sprite), 208, 16 + Len(sprite), 0, 0 >>
        \o sprite

XValues == {0, 1, 8, 35, 60, 63, 64, 255}
YValues == {0, 3, 30, 31, 40, 255}
Sprites == { << 255 >>, << 128, 0 >>, << 0, 129 >>, << 165, 60, 255 >>,
             << 1, 2, 4, 8, 16, 32, 64, 128, 255, 0, 255, 1, 128, 24, 231 >> }

DrawPrograms == { DrawProgram(x, y, s) : x \in XValues, y \in YValues, s \in Sprites }

\* 0x200 CALL 0x206; 0x202 0x0000; 0x206 RET
CallRetProgram == << 34, 6, 0, 0, 0, 0, 0, 238 >>

\* 0x200 CALL 0x204; 0x202 0x0000; 0x204 CALL 0x208; 0x206 RET; 0x208 RET
NestedCallProgram == << 34, 4, 0, 0, 34, 8, 0, 238, 0, 238 >>

\* 0x200 CALL 0x200: every cycle nests one call deeper
RecursiveCallProgram == << 34, 0 >>

\* 0x200 RET, on the empty stack
RetProgram == << 0, 238 >>

\* 0x200 LD V0,1; 0x202 an opcode of family 8 with no case (0x8008)
BadOpcodeProgram == << 96, 1, 128, 8 >>

\* 0x200 JP 0x200: runs until it is halted
SpinProgram == << 18, 0 >>

\* 0x200 LD V0,1; 0x202 0x0000
ShortProgram == << 96, 1, 0, 0 >>

\* The program of no bytes
EmptyProgram == << >>

\* 0x200 0x5001, a 5xy0 with a low nibble that is not 0; 0x202 0x0000;
\* 0x204 0x9001, the same of 9xy0; 0x206 0x0000
MalformedSkipProgram == << 80, 1, 0, 0, 144, 1, 0, 0 >>

\* One byte more than fits between 0x200 and the end of memory
TooLargeProgram == [k \in 1 .. (MemorySize - programStartAddr + 1) |-> 255]

\* 0x200 LD V0,3; LD DT,V0; LD ST,V0; 0x206 LD V1,K; 0x208 0x0000
TimerProgram == << 96, 3, 240, 21, 240, 24, 241, 10, 0, 0 >>

\* 0x200 LD V0,200; LD DT,V0; 0x204 JP 0x204
LongTimerProgram == << 96, 200, 240, 21, 18, 4 >>

\* 0x200 LD ST,V0 with V0 = 0; 0x202 0x0000
SoundZeroProgram == << 240, 24, 0, 0 >>

\* The last seven leave the memory or go up to its end:
\*   JP 0xFFF
\*   LD V0,255; JP V0,0xFFF                       (PC = 0x10FE)
\*   LD V1,48; LD V2,27; LD I,5; DRW V1,V2,5; JP 0xFFE
\*       (the glyph 1 leaves 0x70 in 0xFFE: ADD V0,0 there takes PC to 0x1000)
\*   LD I,0xFFF; DRW V0,V0,2                      (sprite at 0xFFF, 0x1000)
\*   LD I,0xFFF; LD V0,255; ADD I,V0; LD [I],V2   (I = 0x10FE)
\*   LD I,0xFFE; LD V3,[I]                        (0xFFE, 0xFFF, 0x1000)
\*   LD I,0xFFE; LD [I],V2; LD I,0xFFF; LD B,V0; 0x0000   (up to 0xFFF)
DevPrograms ==
    {EmptyProgram, MalformedSkipProgram, TooLargeProgram, TimerProgram,
     LongTimerProgram, SoundZeroProgram,
     << 31, 255 >>,
     << 96, 255, 191, 255 >>,
     << 97, 48, 98, 27, 160, 5, 209, 37, 31, 254 >>,
     << 175, 255, 208, 2 >>,
     << 175, 255, 96, 255, 240, 30, 242, 85 >>,
     << 175, 254, 243, 101 >>,
     << 175, 254, 242, 85, 175, 255, 240, 51, 0, 0 >>}

Programs ==
    DrawPrograms \cup {CallRetProgram, NestedCallProgram, RecursiveCallProgram,
                       RetProgram, BadOpcodeProgram, ShortProgram}

CtlPrograms == {SpinProgram, ShortProgram, BadOpcodeProgram}

\* 0x200 CALL 0x202, which leaves one return address on the stack; 0x202 LD I,0x300;
\* 0x204 LD V1,a; 0x206 LD V2,b; 0x208 LD DT,V1
Prelude(a, b) == << 34, 2, 163, 0, 97, a, 98, b, 241, 21 >>

\* The prelude, at 0x20A the instruction of the bytes hi lo, and 0x0000 at
\* 0x20C and at 0x20E, where the instruction leaves PC when it skips
TestProgram(a, b, hi, lo) == Prelude(a, b) \o << hi, lo, 0, 0, 0, 0 >>

\* 0x200 LD V0,a; LD V1,b; LD V2,d; LD I,0x300; 0x208 LD [I],V2;
\* 0x20A LD V0,17; LD V1,34; LD V2,51; 0x210 LD V2,[I]; 0x212 0x0000
SaveRestoreProgram(a, b, d) ==
    << 96, a, 97, b, 98, d, 163, 0, 242, 85,
       96, 17, 97, 34, 98, 51, 242, 101, 0, 0 >>

\* CLS on the clear screen; after DRW V1,V2,5 of the glyph 0; after that and
\* a DRW of the glyph 5 at the same place
ClsProgram(x, y, draws) ==
    CASE draws = 0 -> << 0, 224, 0, 0 >>
      [] draws = 1 -> << 97, x, 98, y, 160, 0, 209, 37, 0, 224, 0, 0 >>
      [] OTHER -> << 97, x, 98, y, 160, 0, 209, 37, 160, 25, 209, 37,
                     0, 224, 0, 0 >>

\* The programs of one instruction each, after a prelude:
\*   SE V1,b; SNE V1,b; SE V1,V2; SNE V1,V2; SE V1,V1; SNE V1,V1
\*   LD Vx,kk for every register
\*   ADD, SUB, SHR, SUBN, SHL V1,V2
\*   SKP V1; SKNP V1
\*   LD B,V1 with I = 0x300
\*   the registers saved and loaded again; CLS
IsaPrograms ==
    { TestProgram(a, b, hi, b) : a \in {0, 1, 128, 255}, b \in {0, 1, 128, 255},
                                 hi \in {49, 65} } \cup
    { TestProgram(a, b, hi, lo) : a \in {0, 1, 128, 255}, b \in {0, 1, 128, 255},
                                  hi \in {81, 145}, lo \in {16, 32} } \cup
    { Prelude(7, 9) \o << 96 + x, kk, 0, 0 >> : x \in 0 .. 15, kk \in {0, 1, 128, 255} } \cup
    { TestProgram(a, b, 129, 32 + n) : a \in {1, 100, 200, 255}, b \in {1, 100, 200, 255},
                                       n \in {4, 5, 6, 7, 14} } \cup
    { TestProgram(a, 0, 225, lo) : a \in {0, 5, 200}, lo \in {158, 161} } \cup
    { TestProgram(a, 0, 241, 51) : a \in {7, 123, 255} } \cup
    { SaveRestoreProgram(1, 2, 3), SaveRestoreProgram(255, 0, 128) } \cup
    { ClsProgram(x, y, n) : x \in {0, 56}, y \in {0, 27}, n \in 0 .. 2 }

\* What is held down on the hexadecimal keyboard: nothing, or one of the keys
\* 0x0 .. 0xF
NoKey == -1
Pressed == {NoKey} \cup (0 .. 15)

\* input.Poll(): the KeyCode of the key held down, KeyNone when there is none
Poll(pressed) == IF pressed = NoKey THEN KeyNone ELSE pressed
RandomBytes == {0, 165, 255}

----------------------------------------------------------------------------
(* The callers.  th[t].at is where goroutine t stands:                      *)
(*   off, idle            not calling (off: a goroutine that never calls)   *)
(*   run_reset, run_load  in Run, before reset() and before load()          *)
(*   resume_check/_set    in Resume, before the IsRunning test and before   *)
(*                        isStoppedFlag = false                             *)
(*   loop_check           at the test of  for c.IsRunning()                 *)
(*   loop_wait            at  <-c.clock.C                                   *)
(*   cycle_timers         about to enter cycle()                            *)
(*   cycle_exec           in cycle(), the timers done, before the fetch     *)
(*   halt_check/_set      in Halt, before the test and before the write     *)
(*   step_check           in Step, before its IsRunning test                *)
(*   step_return          Step's cycle() has returned                       *)
(* th[t].ret is the caller of cycle(): "loop" or "step"; th[t].halt is the  *)
(* caller of Halt(): "" (the goroutine's own call) or "step".               *)
(* The other fields are history kept for the properties:                    *)
(*   calls    method calls this goroutine has issued                        *)
(*   running  in Step: the machine was running when Step tested it          *)
(*   since    in Step: cycles begun, by anyone, from the moment Step is     *)
(*            past its test and its Halt to the end of its own cycle        *)
(*   halted   in the run loop: some Halt has set isStoppedFlag meanwhile    *)
(*   after    in the run loop: cycles this loop began since that Halt       *)
(*   torn     in cycle(): reset() or load() ran meanwhile                   *)
(*   first    Run of this goroutine has done load(), and since then no      *)
(*            cycle has begun and no other Run has reset the machine        *)
(*   snap     the Chip8State a Snapshot() has returned to it, or << >>      *)
(***************************************************************************)

Threads == 1 .. NThreads

Methods == {"Run", "Resume", "Halt", "Step"}

Idle(n) ==
    [at |-> "idle", ret |-> "", halt |-> "", calls |-> n, running |-> FALSE,
     since |-> 0, halted |-> FALSE, after |-> 0, torn |-> FALSE, first |-> FALSE,
     snap |-> << >>]

Off == [Idle(0) EXCEPT !.at = "off"]

InLoop(s) ==
    \/ s.at \in {"loop_check", "loop_wait"}
    \/ s.at \in {"cycle_timers", "cycle_exec"} /\ s.ret = "loop"

\* In Step, past  if c.IsRunning() { c.Halt() }
InStep(s) == s.at \in {"cycle_timers", "cycle_exec"} /\ s.ret = "step"

InCycle(s) == s.at = "cycle_exec"

Sat(n) == IF n < HistoryCap THEN n + 1 ELSE n

\* last before any instruction was executed.  Its fields: op the opcode, pc
\* where it was fetched, by the goroutine, fault the panic it ended in or "",
\* before and after the machine around exec, call the CALL a RET returns from,
\* prevOp and prev the op and before of the instruction executed before it.
NoCycle == [op |-> -1, pc |-> 0, by |-> 0, fault |-> "", before |-> NewChip8,
            after |-> NewChip8, call |-> [addr |-> -1, depth |-> -1],
            prevOp |-> -1, prev |-> NewChip8, pressed |-> NoKey]

\* tk before any cycle.  Its fields: dtSet, stSet the value the last Fx15,
\* Fx18 or reset wrote to the timer, and dtN, stN the timer phases since.
NoTimers == [dtSet |-> 0, dtN |-> 0, stSet |-> 0, stN |-> 0]

\* One more timer phase since the timer was set to set: the count stops one
\* past set, when the timer has been at 0 for a phase, and at TickCap; a
\* timer set to 0 is not counted for
Count(n, set) == IF set = 0 \/ n > set \/ n >= TickCap THEN n ELSE n + 1

\* An Fx0A that found no key
IsWaitK(h) ==
    /\ h.op # -1 /\ h.fault = ""
    /\ OpFirst(h.op) = 15 /\ OpKK(h.op) = 10
    /\ Poll(h.pressed) = KeyNone

----------------------------------------------------------------------------
(* Actions *)

Up == host = "up"

At(t, where) == th[t].at = where

Goto(t, where) == [th EXCEPT ![t].at = where]

\* Back from the exported method: the goroutine is idle again
Return(t) == [th EXCEPT ![t] = [Idle(th[t].calls) EXCEPT !.snap = th[t].snap]]

\* What Run is handed in a run of program p: p, and with the programs of
\* DevPrograms also the program of no bytes
Handed(p) == IF p \in DevPrograms THEN {p, EmptyProgram} ELSE {p}

\* A goroutine calls one of the exported methods
Call(t) ==
    /\ Up
    /\ At(t, "idle")
    /\ th[t].calls < MaxCalls
    /\ \E method \in Methods :
          /\ th' = [th EXCEPT ![t] =
                    [Idle(th[t].calls + 1) EXCEPT
                       !.snap = th[t].snap,
                       !.at = CASE method = "Run" -> "run_reset"
                                [] method = "Resume" -> "resume_check"
                                [] method = "Halt" -> "halt_check"
                                [] OTHER -> "step_check"]]
          /\ rom' \in IF method = "Run" THEN Handed(rom) ELSE {rom}
    /\ UNCHANGED <<c, host, last, shadow, tk>>

\* What reset() and load() of goroutine t do to the others: a cycle in progress
\* is torn, and the machine another Run had loaded is no longer as it left it
Tear(t, s) ==
    [u \in Threads |->
        IF u = t THEN s[u]
        ELSE [s[u] EXCEPT !.torn = InCycle(s[u]) \/ s[u].torn, !.first = FALSE]]

\* Run: c.reset()
RunReset(t) ==
    /\ Up
    /\ At(t, "run_reset")
    /\ c' = reset(c)
    /\ th' = Tear(t, Goto(t, "run_load"))
    /\ shadow' = << >>
    /\ tk' = [tk EXCEPT !.dtSet = 0, !.dtN = 0, !.stSet = 0, !.stN = 0]
    /\ UNCHANGED <<rom, host, last>>

\* Run: err := c.load(program), which returns nil, and then c.Resume()
RunLoad(t) ==
    /\ Up
    /\ At(t, "run_load")
    /\ IF loadPanics(rom)
       THEN /\ host' = "index out of range"
            /\ c' = load(c, rom)
            /\ th' = th
            /\ tk' = tk
       ELSE /\ c' = load(c, rom)
            /\ th' = Tear(t, [th EXCEPT ![t].at = "resume_check", ![t].first = TRUE])
            /\ host' = host
            /\ tk' = tk
    /\ UNCHANGED <<rom, last, shadow>>

\* Resume: if !c.IsRunning() { ... }
ResumeCheck(t) ==
    /\ Up
    /\ At(t, "resume_check")
    /\ th' = IF ~IsRunning(c) THEN Goto(t, "resume_set") ELSE Return(t)
    /\ UNCHANGED <<c, rom, host, last, shadow, tk>>

\* Resume: c.isStoppedFlag = false
ResumeSet(t) ==
    /\ Up
    /\ At(t, "resume_set")
    /\ c' = [c EXCEPT !.isStoppedFlag = FALSE]
    /\ th' = Goto(t, "loop_check")
    /\ UNCHANGED <<rom, host, last, shadow, tk>>

\* Resume: for c.IsRunning() { ... }
LoopCheck(t) ==
    /\ Up
    /\ At(t, "loop_check")
    /\ th' = IF IsRunning(c) THEN Goto(t, "loop_wait") ELSE Return(t)
    /\ UNCHANGED <<c, rom, host, last, shadow, tk>>

\* Resume: <-c.clock.C, which takes the tick the ticker has left there
LoopWait(t) ==
    /\ Up
    /\ At(t, "loop_wait")
    /\ c.clock
    /\ c' = [c EXCEPT !.clock = FALSE]
    /\ th' = [th EXCEPT ![t].at = "cycle_timers", ![t].ret = "loop"]
    /\ UNCHANGED <<rom, host, last, shadow, tk>>

\* The ticker: its channel holds one tick, and a tick nobody took is dropped
ClockTick ==
    /\ Up
    /\ ~c.clock
    /\ c' = [c EXCEPT !.clock = TRUE]
    /\ UNCHANGED <<th, rom, host, last, shadow, tk>>

\* Halt, called by a goroutine or by Step: the test, then the write.  The
\* write is seen by the run loops at their next test.
HaltStep(t) ==
    /\ Up
    /\ th[t].at \in {"halt_check", "halt_set"}
    /\ LET back == IF th[t].halt = "step"
                   THEN [th EXCEPT ![t].at = "cycle_timers", ![t].ret = "step"]
                   ELSE Return(t)
       IN IF At(t, "halt_check")
          THEN /\ th' = IF IsRunning(c) THEN Goto(t, "halt_set") ELSE back
               /\ c' = c
          ELSE /\ c' = [c EXCEPT !.isStoppedFlag = TRUE]
               /\ th' = [u \in Threads |->
                            IF InLoop(back[u]) THEN [back[u] EXCEPT !.halted = TRUE]
                            ELSE back[u]]
    /\ UNCHANGED <<rom, host, last, shadow, tk>>

\* Step: if c.IsRunning() { c.Halt() }, and then c.cycle()
StepCheck(t) ==
    /\ Up
    /\ At(t, "step_check")
    /\ th' = IF IsRunning(c)
             THEN [th EXCEPT ![t].at = "halt_check", ![t].halt = "step",
                             ![t].running = TRUE]
             ELSE [th EXCEPT ![t].at = "cycle_timers", ![t].ret = "step"]
    /\ UNCHANGED <<c, rom, host, last, shadow, tk>>

\* Step has run its cycle and returns
StepReturn(t) ==
    /\ Up
    /\ At(t, "step_return")
    /\ th' = Return(t)
    /\ UNCHANGED <<c, rom, host, last, shadow, tk>>

\* cycle(), first half, called from the run loop or from Step
CycleTimers(t) ==
    /\ Up
    /\ At(t, "cycle_timers")
    /\ c' = cycleTimers(c)
    /\ th' = [u \in Threads |->
                LET s == IF InStep(th[u])
                         THEN [th[u] EXCEPT !.since = Sat(th[u].since), !.first = FALSE]
                         ELSE [th[u] EXCEPT !.first = FALSE]
                IN IF u = t
                   THEN [s EXCEPT !.at = "cycle_exec",
                                  !.after = IF s.halted THEN Sat(s.after) ELSE s.after]
                   ELSE s]
    /\ tk' = [tk EXCEPT !.dtN = Count(tk.dtN, tk.dtSet),
                        !.stN = Count(tk.stN, tk.stSet)]
    /\ UNCHANGED <<rom, host, last, shadow>>

\* The history of a cycle that executed opcode and left the machine as after
Executed(t, opcode, pressed, fault, after) ==
    [op |-> opcode, pc |-> c.pc, by |-> t, fault |-> fault, before |-> c,
     after |-> after,
     call |-> IF opcode = 238 /\ shadow # << >>
              THEN shadow[Len(shadow)] ELSE NoCycle.call,
     prevOp |-> last.op, prev |-> last.before, pressed |-> pressed]

\* What executing opcode does to the count of the timers
Timed(opcode, m) ==
    IF OpFirst(opcode) = 15 /\ OpKK(opcode) = 21
    THEN [tk EXCEPT !.dtSet = m.dt, !.dtN = 0]
    ELSE IF OpFirst(opcode) = 15 /\ OpKK(opcode) = 24
    THEN [tk EXCEPT !.stSet = m.st, !.stN = 0]
    ELSE tk

\* cycle(), second half: fetch, then Halt on 0x0000 or exec.  A panic is not
\* recovered anywhere: it ends the process.
CycleExec(t) ==
    /\ Up
    /\ At(t, "cycle_exec")
    /\ IF cyclePanic(c) # ""
       THEN /\ host' = cyclePanic(c)
            /\ last' = Executed(t, IF readOpcodePanics(c, c.pc) THEN -1
                                    ELSE readOpcode(c, c.pc), NoKey, cyclePanic(c), c)
            /\ UNCHANGED <<c, th, shadow, tk>>
       ELSE LET opcode == readOpcode(c, c.pc) IN
            /\ \E pressed \in IF Polls(opcode) THEN Pressed ELSE {NoKey} :
               \E rnd \in IF Draws(opcode) THEN RandomBytes ELSE {0} :
                  /\ c' = cycleExec(c, Poll(pressed), rnd)
                  /\ last' = IF opcode = eofInstruction THEN last
                             ELSE Executed(t, opcode, pressed, "", c')
            /\ th' = IF th[t].ret = "loop"
                     THEN [th EXCEPT ![t].at = "loop_check", ![t].torn = FALSE]
                     ELSE [th EXCEPT ![t].at = "step_return", ![t].torn = FALSE]
            /\ shadow' =
                 IF opcode = eofInstruction THEN shadow
                 ELSE IF OpFirst(opcode) = 2
                      THEN Append(shadow, [addr |-> c.pc, depth |-> Depth(c)])
                 ELSE IF opcode = 238 /\ shadow # << >>
                      THEN SubSeq(shadow, 1, Len(shadow) - 1)
                 ELSE shadow
            /\ tk' = IF opcode = eofInstruction THEN tk ELSE Timed(opcode, c')
            /\ host' = host
    /\ UNCHANGED rom

Next ==
    \/ ClockTick
    \/ \E t \in Threads :
          \/ Call(t)
          \/ RunReset(t)
          \/ RunLoad(t)
          \/ ResumeCheck(t)
          \/ ResumeSet(t)
          \/ LoopCheck(t)
          \/ LoopWait(t)
          \/ HaltStep(t)
          \/ StepCheck(t)
          \/ StepReturn(t)
          \/ CycleTimers(t)
          \/ CycleExec(t)

\* One goroutine drives the machine: it runs a program, steps it, resumes it
Init ==
    /\ c = NewChip8
    /\ th = [t \in Threads |-> IF t = 1 THEN Idle(0) ELSE Off]
    /\ rom \in Programs
    /\ host = "up"
    /\ last = NoCycle
    /\ shadow = << >>
    /\ tk = NoTimers

Spec == Init /\ [][Next]_vars

\* Every goroutine calls the machine while the others do
InitCtl ==
    /\ c = NewChip8
    /\ th = [t \in Threads |-> Idle(0)]
    /\ rom \in CtlPrograms
    /\ host = "up"
    /\ last = NoCycle
    /\ shadow = << >>
    /\ tk = NoTimers

SpecCtl == InitCtl /\ [][Next]_vars

\* One goroutine, and the programs of the timers, the keyboard and the loader
InitDev ==
    /\ c = NewChip8
    /\ th = [t \in Threads |-> IF t = 1 THEN Idle(0) ELSE Off]
    /\ rom \in DevPrograms
    /\ host = "up"
    /\ last = NoCycle
    /\ shadow = << >>
    /\ tk = NoTimers

SpecDev == InitDev /\ [][Next]_vars

\* One goroutine, and the programs of one instruction each
InitIsa ==
    /\ c = NewChip8
    /\ th = [t \in Threads |-> IF t = 1 THEN Idle(0) ELSE Off]
    /\ rom \in IsaPrograms
    /\ host = "up"
    /\ last = NoCycle
    /\ shadow = << >>
    /\ tk = NoTimers

SpecIsa == InitIsa /\ [][Next]_vars

\* A goroutine that is in no other method calls Snapshot() and keeps what it
\* returns; it does so once
SnapshotCall(t) ==
    /\ Up
    /\ At(t, "idle")
    /\ th[t].snap = << >>
    /\ th' = [th EXCEPT ![t].snap = Snapshot(c)]
    /\ UNCHANGED <<c, rom, host, last, shadow, tk>>

NextSnap == Next \/ \E t \in Threads : SnapshotCall(t)

\* One goroutine that also takes a snapshot, before or after it runs
\*   0x200 LD V0,1; 0x0000                                  or
\*   0x200 CALL 0x202; LD V1,56; LD V2,27; LD I,0; DRW V1,V2,5; LD I,0xEA0;
\*         LD [I],V2; 0x0000
\* of which the second leaves a return address on the stack and pixels in the
\* bytes 0xFDF .. 0xFFF
InitSnap ==
    /\ c = NewChip8
    /\ th = [t \in Threads |-> IF t = 1 THEN Idle(0) ELSE Off]
    /\ rom \in {ShortProgram,
                << 34, 2, 97, 56, 98, 27, 160, 0, 209, 37, 174, 160, 242, 85, 0, 0 >>}
    /\ host = "up"
    /\ last = NoCycle
    /\ shadow = << >>
    /\ tk = NoTimers

SpecSnap == InitSnap /\ [][NextSnap]_vars

----------------------------------------------------------------------------
(* The screen as pixels, and the reference blit *)

\* Pixel (row, col) of the 64x32 screen: the highest bit of a video byte is
\* its leftmost pixel
Pixel(memory, row, col) ==
    Bit(Rd(memory, videoMemoryAddress + (row * 8) + (col \div 8)), 7 - (col % 8))

Rows == 0 .. (screenH - 1)
Cols == 0 .. (screenW - 1)

\* 1 when the sprite drawn at (x, y) has a set bit on pixel (row, col)
\* (row, col) is ((y+i) mod 32, (x+j) mod 64) for one i and one j at most: a
\* sprite has fewer than 32 rows
SpritePixel(sprite, x, y, row, col) ==
    LET i == (row + screenH - (y % screenH)) % screenH
        j == (col + screenW - (x % screenW)) % screenW
    IN IF i < Len(sprite) /\ j < 8 THEN Bit(sprite[i + 1], 7 - j) ELSE 0

IsDRW(h) == h.op # -1 /\ OpFirst(h.op) = 13 /\ h.fault = ""
IsCALL(h) == h.op # -1 /\ OpFirst(h.op) = 2
IsRET(h) == h.op = 238

\* The operands of the DRW that machine m is about to execute
DrwSprite(m, opcode) == spriteOf(m, OpN(opcode))
DrwX(m, opcode) == m.v[OpX(opcode)]
DrwY(m, opcode) == m.v[OpY(opcode)]

SameScreen(m1, m2) ==
    \A a \in videoMemoryAddress .. highestMemoryAddress : Rd(m1, a) = Rd(m2, a)

----------------------------------------------------------------------------
(* Properties *)

\* C1: after every DRW the screen is the screen before it with bit 7-j of
\* sprite row i XORed into pixel ((y+i) mod 32, (x+j) mod 64), for every x, y,
\* aligned or not, wrapping or not.
C1_BlitIsReference ==
    IsDRW(last) =>
        LET sprite == DrwSprite(last.before, last.op)
            x == DrwX(last.before, last.op)
            y == DrwY(last.before, last.op)
        IN \A row \in Rows, col \in Cols :
              Pixel(last.after.memory, row, col) =
                (Pixel(last.before.memory, row, col)
                    + SpritePixel(sprite, x, y, row, col)) % 2

\* A pixel of some row of the sprite was set on the screen before the draw
Collides(m, opcode) ==
    LET sprite == DrwSprite(m, opcode) IN
    \E i \in 0 .. (Len(sprite) - 1), j \in 0 .. 7 :
        /\ Bit(sprite[i + 1], 7 - j) = 1
        /\ Pixel(m.memory, (DrwY(m, opcode) + i) % screenH,
                           (DrwX(m, opcode) + j) % screenW) = 1

\* C2: DRW leaves VF = 1 if and only if some pixel of some row of the sprite
\* was set on the screen before the draw, and VF = 0 otherwise.
C2_CollisionIsUnion ==
    IsDRW(last) =>
        last.after.v[15] = IF Collides(last.before, last.op) THEN 1 ELSE 0

\* The last two instructions drew the same sprite at the same place
DrewTwice ==
    /\ IsDRW(last)
    /\ last.prevOp = last.op
    /\ DrwSprite(last.prev, last.op) = DrwSprite(last.before, last.op)
    /\ DrwX(last.prev, last.op) = DrwX(last.before, last.op)
    /\ DrwY(last.prev, last.op) = DrwY(last.before, last.op)

\* C3: the second of two equal draws restores the screen; on a region that
\* was clear, the first gives VF = 0 and lights the sprite's pixels, and the
\* second gives VF = 1 when the sprite has a set bit.
C3_DrawTwiceRestores ==
    DrewTwice =>
        LET sprite == DrwSprite(last.prev, last.op)
            x == DrwX(last.prev, last.op)
            y == DrwY(last.prev, last.op)
        IN /\ SameScreen(last.after.memory, last.prev.memory)
           /\ ~Collides(last.prev, last.op) =>
                /\ last.before.v[15] = 0
                /\ \A row \in Rows, col \in Cols :
                      SpritePixel(sprite, x, y, row, col) = 1
                          => Pixel(last.before.memory, row, col) = 1
                /\ (\E k \in 1 .. Len(sprite) : sprite[k] # 0) => last.after.v[15] = 1

\* C4: a RET that matches a CALL at address a leaves PC = a + 2 and the stack
\* as deep as it was before that CALL.
C4_RetReturnsPastCall ==
    (IsRET(last) /\ last.fault = "" /\ last.call.addr # -1) =>
        /\ last.after.pc = last.call.addr + 2
        /\ Depth(last.after) = last.call.depth

\* C5: the stack never holds more than 16 return addresses: a CALL with 16
\* on the stack ends in StackOverflow and stores nothing.
C5_StackOverflowFaults ==
    /\ Depth(c) <= 16
    /\ (IsCALL(last) /\ Depth(last.before) >= 16) =>
            /\ last.fault = "StackOverflow"
            /\ last.after.sp = last.before.sp

\* C6: a RET on the empty stack ends in StackUnderflow, with PC and the
\* stack pointer as they were.
C6_StackUnderflowFaults ==
    (IsRET(last) /\ Depth(last.before) = 0) =>
        /\ last.fault = "StackUnderflow"
        /\ last.after.pc = last.before.pc
        /\ last.after.sp = last.before.sp

\* C7: a Step that found the machine running has halted it, and from then
\* to the end of its cycle exactly one cycle has begun, its own: the run
\* loop began none, and the machine is not running.  A Step that found the
\* machine not running has run its cycle.
C7_StepRunsOneCycle ==
    \A t \in Threads :
        th[t].at = "step_return" =>
            IF th[t].running
            THEN th[t].since = 1 /\ ~IsRunning(c)
            ELSE th[t].since >= 1

\* C8: at most one goroutine is inside cycle(), at most one is in the run
\* loop, and reset() and load() never run while a cycle is in progress.
C8_OneCycleAtATime ==
    /\ Cardinality({ t \in Threads : InCycle(th[t]) }) <= 1
    /\ Cardinality({ t \in Threads : InLoop(th[t]) }) <= 1
    /\ \A t \in Threads : ~th[t].torn

\* C9: once Halt has set isStoppedFlag, a run loop begins no cycle beyond the
\* one of the iteration it is in, and leaves the loop.
C9_HaltStopsTheLoop ==
    \A t \in Threads : th[t].halted => th[t].after <= 1

\* C10: a fault in a cycle leaves the machine stopped and the process up.
C10_FaultStopsAndReturns ==
    last.fault # "" => (c.isStoppedFlag /\ host = "up")

\* The bit patterns of the instruction table: 5xy0 and 9xy0 have the low
\* nibble 0, and the families 0, 8, E and F have the members exec has
InTable(opcode) ==
    /\ Decodes(opcode)
    /\ OpFirst(opcode) \in {5, 9} => OpN(opcode) = 0

\* C11: an instruction whose bit pattern is outside the table ends in the
\* fault of the invalid opcode and leaves registers, memory and PC as they were.
C11_InvalidOpcodeFaults ==
    (last.op # -1 /\ ~InTable(last.op)) =>
        /\ last.fault = "Unrecognized opcode"
        /\ last.after = last.before


----------------------------------------------------------------------------
(* Reset and load *)

\* Glyph k of the font table: its five rows
Glyph(k) == SubSeq(fontSpriteData, 5 * k + 1, 5 * k + 5)

FontAddr == 0 .. (Len(fontSpriteData) - 1)

\* The machine as reset() followed by the load of no bytes has to leave it
PostReset(m) ==
    /\ m.pc = programStartAddr
    /\ \A r \in 0 .. 15 : m.v[r] = 0
    /\ m.i = 0
    /\ m.dt = 0 /\ m.st = 0
    /\ Depth(m) = 0 /\ m.sp = stackAddress
    /\ \A a \in videoMemoryAddress .. (MemorySize - 1) : Rd(m.memory, a) = 0
    /\ ~IsRunning(m)
    /\ \A k \in 0 .. 15 : \A j \in 0 .. 4 : Rd(m.memory, 5 * k + j) = Glyph(k)[j + 1]
    /\ \A a \in Addr \ FontAddr : Rd(m.memory, a) = 0

\* Run has done reset() and load(program) with the program of no bytes
ResetAndLoadedEmpty(t) ==
    /\ At(t, "resume_check") /\ th[t].first
    /\ rom = EmptyProgram

\* C12: whatever the machine held before, reset() and then the load of the
\* empty program leave PC at 0x200, V0..VF, I, DT and ST at 0, the stack empty,
\* the framebuffer clear, the machine stopped, glyph k of the font at bytes
\* 5k .. 5k+4 and every other byte of memory 0.
C12_ResetThenLoadEmpty ==
    \A t \in Threads : ResetAndLoadedEmpty(t) => PostReset(c)

\* A machine that had run a program, left registers and timers set and the
\* program in memory, was reset and loaded with no bytes
C12_Witness ==
    \E t \in Threads :
        /\ ResetAndLoadedEmpty(t)
        /\ last.op # -1
        /\ last.after.v[0] # 0
        /\ last.after.st # 0
        /\ Rd(last.after.memory, programStartAddr) # 0
        /\ PostReset(c)


\* The bytes of memory the program of Run was copied to
Copied(m, program) ==
    \A k \in 1 .. Len(program) : Rd(m.memory, programStartAddr + (k - 1)) = program[k]

\* C13: load of a program longer than 4096 - 0x200 bytes fails as an error the
\* caller gets and writes no byte of memory; load of a program that fits copies
\* byte i of it to 0x200 + i.
C13_LoadAllOrNothing ==
    [][\A t \in Threads : RunLoad(t) =>
          IF Len(rom) > MemorySize - programStartAddr
          THEN c'.memory = c.memory /\ host' = "up"
          ELSE Copied(c', rom)]_vars


\* The machine as Run's reset() and load(program) leave it, whatever the clock
\* and isStoppedFlag are
FreshlyLoaded(m, program) ==
    LET fresh == load(reset(m), program)
    IN /\ m.pc = fresh.pc /\ m.i = fresh.i /\ m.v = fresh.v
       /\ m.dt = fresh.dt /\ m.st = fresh.st /\ m.sp = fresh.sp
       /\ m.memory = fresh.memory

\* C14: after Run(program), whatever state the machine was in when it was
\* called, the first cycle that begins finds the machine as reset() and
\* load(program) leave it: until a cycle has begun since the load, registers,
\* timers, stack and memory are those of the fresh machine with the program.
C14_RunStartsFresh ==
    \A t \in Threads : th[t].first => FreshlyLoaded(c, rom)


----------------------------------------------------------------------------
(* Timers, speaker and keyboard *)

\* C15: the timers count the ticks of the 60 Hz clock and not the cycles: a
\* cycle for which no tick was taken from the clock, as the cycle of Step(),
\* leaves DT and ST as they are.
C15_TimersCountTicks ==
    [][\A t \in Threads :
          (CycleTimers(t) /\ th[t].ret = "step") => (c'.dt = c.dt /\ c'.st = c.st)]_vars


\* A timer set to set, after n timer phases of cycle()
TimerAfter(set, n) == IF n >= set THEN 0 ELSE set - n

\* C16: a tick of the timers, the first half of cycle(), lowers a timer above 0
\* by exactly 1 and leaves a timer at 0 where it is: n ticks after a timer was
\* set to s and not written since, it is s - n, or 0 from the s-th tick on,
\* and never 255; so for DT and for ST.
C16_TimersSaturate ==
    /\ tk.dtN < TickCap => c.dt = TimerAfter(tk.dtSet, tk.dtN)
    /\ tk.stN < TickCap => c.st = TimerAfter(tk.stSet, tk.stN)

\* DT was set to 200, 60 ticks have passed, and DT is 140
C16_Witness ==
    /\ tk.dtSet = 200 /\ tk.dtN = 60
    /\ c.dt = 140


\* C17: the timer phase of a cycle calls Speaker.StopSound() exactly when it
\* takes ST from 1 to 0: not when ST is 0 already, and not when ST stays
\* above 0.
C17_StopSoundAtZero ==
    [][\A t \in Threads :
          CycleTimers(t) =>
              /\ cycleStopsSound(c) <=> (c.st = 1 /\ c'.st = 0)
              /\ cycleStopsSound(c) => c'.speaker = "StopSound"
              /\ ~cycleStopsSound(c) => c'.speaker = c.speaker]_vars

\* A sound of three ticks has ended: the third tick took ST to 0 and the
\* speaker was told to stop
C17_Witness ==
    /\ tk.stSet = 3 /\ tk.stN = 3
    /\ c.st = 0
    /\ c.speaker = "StopSound"


\* An Fx18 that was executed
IsLDST(h) == h.op # -1 /\ h.fault = "" /\ OpFirst(h.op) = 15 /\ OpKK(h.op) = 24

\* C18: while ST is above 0 the speaker is sounding, the last call it got being
\* StartSound(): Fx18 with Vx not 0 sets ST to Vx and calls StartSound(), and
\* StopSound() is not called while ST stays above 0.
C18_SoundWhileST ==
    /\ c.st > 0 => c.speaker = "StartSound"
    /\ (IsLDST(last) /\ last.before.v[OpX(last.op)] # 0) =>
          /\ last.after.st = last.before.v[OpX(last.op)]
          /\ last.after.speaker = "StartSound"

\* LD ST,V0 with V0 = 3 was executed, a tick has passed, and the sound is on
C18_Witness ==
    /\ IsLDST(last) /\ last.before.v[OpX(last.op)] = 3
    /\ last.before.speaker # "StartSound"
    /\ c.st = 2
    /\ c.speaker = "StartSound"


\* An Fx0A that was executed
IsLDK(h) == h.op # -1 /\ h.fault = "" /\ OpFirst(h.op) = 15 /\ OpKK(h.op) = 10

\* C19: Fx0A with no key down leaves PC and every register as they were, so
\* that the next cycle executes it again; with key k down, k any of 0x0 .. 0xF,
\* key 0 too, it stores k in Vx and moves PC on by 2.
C19_WaitKeyStoresKey ==
    IsLDK(last) =>
        IF last.pressed = NoKey
        THEN /\ last.after.pc = last.before.pc
             /\ last.after.v = last.before.v
             /\ last.after.i = last.before.i
             /\ last.after.sp = last.before.sp
        ELSE /\ last.after.v[OpX(last.op)] = last.pressed
             /\ last.after.pc = last.before.pc + 2


\* C20: while Fx0A waits for a key the cycles go on: the Fx0A that finds no
\* key completes its cycle with PC, DT and ST as they were and the machine
\* running, and the timer phase of the cycle after it lowers DT and ST towards
\* 0 as in any other cycle, with StopSound() when ST reaches 0.
C20_WaitKeepsTimers ==
    [][\A t \in Threads :
          /\ (CycleExec(t) /\ IsWaitK(last') /\ readOpcode(c, c.pc) = last'.op) =>
                /\ c'.pc = c.pc /\ c'.dt = c.dt /\ c'.st = c.st
                /\ IsRunning(c') = IsRunning(c)
                /\ th'[t].at \in {"loop_check", "step_return"}
          /\ (CycleTimers(t) /\ IsWaitK(last) /\ c.pc = last.pc) =>
                /\ c'.dt = TimerAfter(c.dt, 1)
                /\ c'.st = TimerAfter(c.st, 1)
                /\ c.st = 1 => c'.speaker = "StopSound"
                /\ c'.pc = c.pc]_vars

\* Fx0A found no key with ST at 1; the next cycle has begun, ST is 0, the
\* speaker was told to stop, and PC is still at the Fx0A
C20_Witness ==
    /\ IsWaitK(last)
    /\ last.after.st = 1
    /\ \E t \in Threads : At(t, "cycle_exec") /\ th[t].ret = "loop"
    /\ c.st = 0 /\ c.speaker = "StopSound"
    /\ c.pc = last.pc


----------------------------------------------------------------------------
(* The instructions, one by one *)

\* An instruction of the family first was executed and exec returned
Ran(h, first) == h.op # -1 /\ h.fault = "" /\ OpFirst(h.op) = first

\* The register operand Vx of the instruction, as it was before exec
Vx(h) == h.before.v[OpX(h.op)]
Vy(h) == h.before.v[OpY(h.op)]

\* How far exec moved PC
Advance(h) == h.after.pc - h.before.pc

\* The key whose code is k is held down
KeyDown(pressed, k) == pressed # NoKey /\ pressed = k

\* C21: Ex9E moves PC by 4 when the key whose code is Vx is down and by 2 when
\* it is not; ExA1 by 4 when that key is not down and by 2 when it is; so for
\* every Vx, Vx = 0 with no key down too, where Ex9E does not skip and ExA1
\* skips.
C21_SkipOnKey ==
    Ran(last, 14) =>
        IF OpKK(last.op) = 158
        THEN Advance(last) = IF KeyDown(last.pressed, Vx(last)) THEN 4 ELSE 2
        ELSE Advance(last) = IF KeyDown(last.pressed, Vx(last)) THEN 2 ELSE 4


\* The instruction 8xyN with the low nibble n was executed, x not F
Ran8(h, n) == Ran(h, 8) /\ OpN(h.op) = n /\ OpX(h.op) # 15

\* The registers Vx and VF as exec left them
VxAfter(h) == h.after.v[OpX(h.op)]
VFAfter(h) == h.after.v[15]

\* C22: 8xy4, x not F, leaves (Vx + Vy) mod 256 in Vx and in VF 1 when the
\* sum of the two register values is above 255 and 0 when it is not.
C22_AddSetsCarry ==
    Ran8(last, 4) =>
        /\ VxAfter(last) = (Vx(last) + Vy(last)) % 256
        /\ VFAfter(last) = IF Vx(last) + Vy(last) > 255 THEN 1 ELSE 0

\* C23: 8xy5, x not F, leaves (Vx - Vy) mod 256 in Vx and in VF 1 when Vx >= Vy
\* before the subtraction and 0 when not.
C23_SubSetsNoBorrow ==
    Ran8(last, 5) =>
        /\ VxAfter(last) = (Vx(last) - Vy(last)) % 256
        /\ VFAfter(last) = IF Vx(last) >= Vy(last) THEN 1 ELSE 0

\* C24: 8xy7, x not F, leaves (Vy - Vx) mod 256 in Vx and in VF 1 when Vy >= Vx
\* before the subtraction, Vy = Vx included, and 0 when not.
C24_SubnSetsNoBorrow ==
    Ran8(last, 7) =>
        /\ VxAfter(last) = (Vy(last) - Vx(last)) % 256
        /\ VFAfter(last) = IF Vy(last) >= Vx(last) THEN 1 ELSE 0

\* C25: 8xy6, x not F, leaves bit 0 of the old Vx in VF and the old Vx shifted
\* right by one in Vx; 8xyE, x not F, leaves bit 7 of the old Vx in VF, as 0 or
\* 1, and (old Vx * 2) mod 256 in Vx.
C25_ShiftsSetVF ==
    /\ Ran8(last, 6) =>
          /\ VFAfter(last) = Vx(last) % 2
          /\ VxAfter(last) = Vx(last) \div 2
    /\ Ran8(last, 14) =>
          /\ VFAfter(last) = Vx(last) \div 128
          /\ VxAfter(last) = (Vx(last) * 2) % 256


\* The condition of the conditional skip that was executed
SkipCondition(h) ==
    CASE OpFirst(h.op) = 3 -> Vx(h) = OpKK(h.op)
      [] OpFirst(h.op) = 4 -> Vx(h) # OpKK(h.op)
      [] OpFirst(h.op) = 5 -> Vx(h) = Vy(h)
      [] OTHER -> Vx(h) # Vy(h)

\* exec changed PC and nothing else
OnlyPC(h) == h.after = [h.before EXCEPT !.pc = h.after.pc]

\* C26: 3xkk, 4xkk, 5xy0 and 9xy0 move PC by 4 when their condition holds
\* (Vx = kk, Vx # kk, Vx = Vy, Vx # Vy) and by 2 when it does not, and change
\* no register, timer, byte of memory or stack entry.
C26_SkipsMovePC ==
    (/\ last.op # -1 /\ last.fault = ""
     /\ OpFirst(last.op) \in {3, 4, 9} \/ (OpFirst(last.op) = 5 /\ OpN(last.op) = 0)) =>
        /\ Advance(last) = IF SkipCondition(last) THEN 4 ELSE 2
        /\ OnlyPC(last)

\* SNE V1,V2 with V1 = 128 and V2 = 1 skipped, with DT running, I set and a
\* return address on the stack
C26_Witness ==
    /\ Ran(last, 9) /\ Vx(last) = 128 /\ Vy(last) = 1
    /\ Advance(last) = 4
    /\ last.before.dt > 0 /\ last.before.i # 0 /\ Depth(last.before) = 1


\* C27: 6xkk, for every register x in 0 .. F and every kk, sets Vx to kk and
\* moves PC by exactly 2, and leaves every other register, I, the timers,
\* memory and the stack as they were.
C27_LoadByte ==
    Ran(last, 6) =>
        last.after = [last.before EXCEPT !.v[OpX(last.op)] = OpKK(last.op),
                                         !.pc = last.before.pc + 2]

\* LD VF,255 was executed with V1 = 7, V2 = 9, DT running, I set and a return
\* address on the stack
C27_Witness ==
    /\ Ran(last, 6) /\ OpX(last.op) = 15 /\ OpKK(last.op) = 255
    /\ last.before.v[1] = 7 /\ last.before.v[2] = 9 /\ last.before.v[15] = 0
    /\ last.before.dt > 0 /\ last.before.i # 0 /\ Depth(last.before) = 1
    /\ last.after.v[15] = 255


\* The instruction Fxkk with the low byte kk was executed
RanF(h, kk) == Ran(h, 15) /\ OpKK(h.op) = kk

\* C28: Fx33 writes the decimal digits of Vx to memory, the hundreds to mem[I],
\* the tens to mem[I+1] and the ones to mem[I+2], leaves I and the registers
\* as they were and moves PC by 2.
C28_StoresBCD ==
    RanF(last, 51) =>
        /\ Rd(last.after.memory, last.before.i) = Vx(last) \div 100
        /\ Rd(last.after.memory, last.before.i + 1) = (Vx(last) \div 10) % 10
        /\ Rd(last.after.memory, last.before.i + 2) = Vx(last) % 10
        /\ last.after.i = last.before.i
        /\ last.after.v = last.before.v
        /\ Advance(last) = 2


\* The program that is run saves V0..V2, overwrites them and loads them again
IsSaveRestore ==
    /\ Len(rom) = Len(SaveRestoreProgram(0, 0, 0))
    /\ rom = SaveRestoreProgram(rom[2], rom[4], rom[6])

\* C29: Fx55 copies the x+1 registers V0 .. Vx, Vx too, to mem[I] .. mem[I+x];
\* Fx65 copies mem[I] .. mem[I+x] to V0 .. Vx, Vx too; so Fx65 after Fx55 with
\* the same x and I gives V0 .. Vx the values they had at the Fx55, whatever
\* was written to them in between.
C29_SaveAndRestore ==
    /\ RanF(last, 85) =>
          \A k \in 0 .. OpX(last.op) :
              Rd(last.after.memory, last.before.i + k) = last.before.v[k]
    /\ RanF(last, 101) =>
          \A k \in 0 .. OpX(last.op) :
              last.after.v[k] = Rd(last.before.memory, last.before.i + k)
    /\ (IsSaveRestore /\ RanF(last, 101)) =>
          \A k \in 0 .. 2 : last.after.v[k] = rom[2 * k + 2]


\* The bytes of video memory, 0xF00 .. 0xFFF
VideoAddr == videoMemoryAddress .. highestMemoryAddress

\* C30: after 00E0, whatever was drawn before, every bit of the framebuffer is
\* 0, all 256 bytes 0xF00 .. 0xFFF, PC has moved by 2 and no byte of memory
\* outside the framebuffer has changed.
C30_ClearScreen ==
    (last.op = 224 /\ last.fault = "") =>
        /\ \A a \in VideoAddr : Rd(last.after.memory, a) = 0
        /\ Cardinality(VideoAddr) = (screenW * screenH) \div 8
        /\ Advance(last) = 2
        /\ \A a \in Addr \ VideoAddr :
              Rd(last.after.memory, a) = Rd(last.before.memory, a)

\* CLS was executed on a screen with pixels set in its last byte and elsewhere
C30_Witness ==
    /\ last.op = 224 /\ last.fault = ""
    /\ Rd(last.before.memory, highestMemoryAddress) # 0
    /\ \E a \in VideoAddr \ {highestMemoryAddress} : Rd(last.before.memory, a) # 0
    /\ \A a \in VideoAddr : Rd(c.memory, a) = 0

----------------------------------------------------------------------------
(* The framebuffer and the rest of memory *)

\* C31: the framebuffer 0xF00 .. 0xFFF changes only through 00E0, Dxyn and
\* reset: no other instruction that exec returns from (the stack push of CALL
\* at any depth, Fx55, Fx33) changes a byte of it, and load() of a program
\* changes none either.
C31_FrameOnlyByDraw ==
    /\ [](Ran(last, OpFirst(last.op)) /\ last.op # 224 /\ OpFirst(last.op) # 13
            => \A a \in VideoAddr :
                  Rd(last.after.memory, a) = Rd(last.before.memory, a))
    /\ [][\A t \in Threads : RunLoad(t) =>
             \A a \in VideoAddr : Rd(c'.memory, a) = Rd(c.memory, a)]_vars

\* C32: an opcode is only ever fetched with PC <= 0xFFE, both of its bytes
\* inside the memory; when a jump, a return, a skip or the step to the next
\* instruction has left PC above 0xFFE, the cycle that would fetch there ends
\* in the fault of the index out of range instead, executes nothing and
\* leaves the machine as it was.
C32_FetchInBounds ==
    /\ [](last.op # -1 => last.pc <= highestMemoryAddress - 1)
    /\ [][\A t \in Threads :
            (CycleExec(t) /\ c.pc > highestMemoryAddress - 1) =>
                /\ last'.fault = "index out of range" /\ last'.op = -1
                /\ host' = "index out of range"
                /\ c' = c]_vars

\* A cycle was to fetch at 0x10FE, where JP V0,0xFFF with V0 = 255 had taken PC
C32_Witness ==
    /\ last.op = -1 /\ last.fault = "index out of range"
    /\ last.pc = highestMemoryAddress + 255
    /\ last.prevOp = 11 * 4096 + highestMemoryAddress

\* The goroutines that hold a snapshot
Holders == { t \in Threads : th[t].snap # << >> }

\* C33: what Snapshot() returns equals the machine at the call (PC, I, V, DT,
\* ST, memory, the stack and the framebuffer), the call changes nothing of
\* the machine, and the stack and the framebuffer read from the snapshot
\* later are still the bytes of the call, whatever the machine has executed or
\* reset since.
C33_SnapshotIsACopy ==
    /\ [](\A t \in Holders :
            LET s == th[t].snap IN
            /\ SliceBytes(c.memory, s.Stack) = SliceBytes(s.Memory, s.Stack)
            /\ SliceBytes(c.memory, s.VideoMemory) = SliceBytes(s.Memory, s.VideoMemory))
    /\ [][\A t \in Threads : SnapshotCall(t) =>
            LET s == th'[t].snap IN
            /\ c' = c
            /\ s.PC = c.pc /\ s.I = c.i /\ s.V = c.v /\ s.DT = c.dt /\ s.ST = c.st
            /\ s.Memory = c.memory
            /\ s.Stack.lo = stackAddress /\ s.Stack.hi = c.sp]_vars

\* C34: the framebuffer the machine hands out is the 256 bytes 0xF00 .. 0xFFF,
\* the byte 0xFFF of the last eight pixels of the bottom row included: both
\* the VideoMemory of a snapshot and the array refreshScreen() sends.
C34_FrameIs256Bytes ==
    /\ \A t \in Holders :
          LET video == SliceBytes(c.memory, th[t].snap.VideoMemory) IN
          /\ Len(video) = (screenW * screenH) \div 8
          /\ video[Len(video)] = Rd(c.memory, highestMemoryAddress)
    /\ \A k \in 1 .. ((screenW * screenH) \div 8) :
          refreshScreen(c)[k] = Rd(c.memory, videoMemoryAddress + (k - 1))

----------------------------------------------------------------------------
(* The interpreter of src/chip8.go (package main).  It keeps the screen as   *)
(* [32][64]bool, here the set of the cells <<row, col>> that are true, the    *)
(* stack as a slice of return addresses and the keys as KeyState, here the    *)
(* set of the indexes that are true; it calls Display.Render from Step.       *)
(* Under SpecMain the variable c holds this machine and last the history of   *)
(* its last Step; its font table is the fontSpriteData of above, loaded at 0. *)

\* What Input.Poll() may return: no key, the key 5, and each of the keys of
\* the host: power off 0x10, pause 0x11, unpause 0x12, step 0x13, dump 0x14
KeyStates == {{}, {5}, {16}, {17}, {18}, {19}, {20}}

initalize(m) ==
    [pc |-> programStartAddr, i |-> 0, v |-> [r \in 0 .. 15 |-> 0], dt |-> 0,
     st |-> 0, stack |-> << >>, memory |-> loadFontSprites(ZeroMemory, 0),
     keyState |-> {}, screen |-> {}, drawFlag |-> FALSE,
     shouldCloseFlag |-> FALSE, isPausedFlag |-> m.isPausedFlag]

\* drawSprite of package main: pixel j of row i is taken with the mask
\* byte(0x1) << (spriteW - j), and a pixel that is set toggles its cell.  The
\* cells of one sprite are all different, so the order of the loop is immaterial.
mainDrawSprite(m, sprite, x, y) ==
    LET px(i, j) == AndByte(sprite[i + 1], Shl(1, 8 - j)) > 0
        set == { q \in (0 .. (Len(sprite) - 1)) \X (0 .. 7) : px(q[1], q[2]) }
        lit == { << Byte(y + q[1]) % screenH, Byte(x + q[2]) % screenW >> : q \in set }
    IN [machine |-> [m EXCEPT !.screen = (m.screen \ lit) \cup (lit \ m.screen),
                              !.drawFlag = TRUE],
        occluded |-> lit \cap m.screen # {}]

\* The message of the panic exec of package main ends in, or ""
mainExecPanic(m, opcode) ==
    LET first == OpFirst(opcode)
        kk == OpKK(opcode)
    IN
    IF \/ first = 0 /\ opcode \notin {224, 238}
       \/ first = 8 /\ OpN(opcode) \notin (0 .. 7) \cup {14}
       \/ first = 14 /\ kk \notin {158, 161}
       \/ first = 15 /\ kk \notin {7, 10, 21, 24, 30, 41, 51, 85, 101}
    THEN "Unrecognized opcode"
    ELSE IF \/ opcode = 238 /\ m.stack = << >>
            \/ first = 13 /\ \E a \in spriteAddrs(m, OpN(opcode)) : a >= MemorySize
            \/ first = 15 /\ kk \in {85, 101}
                          /\ \E k \in 0 .. (OpX(opcode) - 1) : Word(m.i + k) >= MemorySize
    THEN "index out of range"
    ELSE ""

\* exec of package main when it returns; rnd is what rand.Intn(256) gives
mainExec(m, opcode, rnd) ==
    LET first == OpFirst(opcode)
        x == OpX(opcode)
        y == OpY(opcode)
        kk == OpKK(opcode)
        addr == OpNNN(opcode)
        n == OpN(opcode)
        pressed == { k \in m.keyState : k < 16 }
        set(r, val) == [m EXCEPT !.v[r] = val, !.pc = Word(m.pc + 2)]
        skip(cond) == [m EXCEPT !.pc = Word(m.pc + (IF cond THEN 4 ELSE 2))]
        drawn == mainDrawSprite(m, spriteOf(m, n), m.v[x], m.v[y])
    IN CASE opcode = 224 -> [m EXCEPT !.screen = {}, !.pc = Word(m.pc + 2)]
         [] opcode = 238 ->
              [m EXCEPT !.pc = Word(m.stack[Len(m.stack)] + 2),
                        !.stack = SubSeq(m.stack, 1, Len(m.stack) - 1)]
         [] first = 1 -> [m EXCEPT !.pc = addr]
         [] first = 2 -> [m EXCEPT !.stack = Append(m.stack, m.pc), !.pc = addr]
         [] first = 3 -> skip(m.v[x] = kk)
         [] first = 4 -> skip(m.v[x] # kk)
         [] first = 5 -> skip(m.v[x] = m.v[y])
         [] first = 6 -> set(x, kk)
         [] first = 7 -> set(x, Byte(m.v[x] + kk))
         [] first = 8 /\ n = 0 -> set(x, m.v[y])
         [] first = 8 /\ n = 1 -> set(x, OrByte(m.v[x], m.v[y]))
         [] first = 8 /\ n = 2 -> set(x, AndByte(m.v[x], m.v[y]))
         [] first = 8 /\ n = 3 -> set(x, XorByte(m.v[x], m.v[y]))
         [] first = 8 /\ n = 4 -> set(x, Byte(m.v[x] + m.v[y]))
         [] first = 8 /\ n = 5 -> set(x, Byte(m.v[x] + 256 - m.v[y]))
         [] first = 8 /\ n = 6 ->
              LET m1 == [m EXCEPT !.v[15] = AndByte(m.v[x], 1)]
              IN [m1 EXCEPT !.v[x] = Shr(m1.v[x], 1), !.pc = Word(m.pc + 2)]
         [] first = 8 /\ n = 7 ->
              LET m1 == [m EXCEPT !.v[15] = IF m.v[y] > m.v[x] THEN 1 ELSE 0]
              IN [m1 EXCEPT !.v[x] = Byte(m1.v[x] + 256 - m1.v[y]),
                            !.pc = Word(m.pc + 2)]
         [] first = 8 /\ n = 14 ->
              LET m1 == [m EXCEPT !.v[15] = AndByte(m.v[x], 128)]
              IN [m1 EXCEPT !.v[x] = Shl(m1.v[x], 1), !.pc = Word(m.pc + 2)]
         [] first = 9 -> skip(m.v[x] # m.v[y])
         [] first = 10 -> [m EXCEPT !.i = addr, !.pc = Word(m.pc + 2)]
         [] first = 11 -> [m EXCEPT !.pc = Word(addr + m.v[0])]
         [] first = 12 -> set(x, AndByte(rnd, kk))
         [] first = 13 ->
              [drawn.machine EXCEPT !.v[15] = IF drawn.occluded THEN 1 ELSE 0,
                                    !.pc = Word(m.pc + 2)]
         [] first = 14 /\ kk = 158 -> skip(m.v[x] % 16 \in m.keyState)
         [] first = 14 /\ kk = 161 -> skip(m.v[x] % 16 \notin m.keyState)
         [] first = 15 /\ kk = 7 -> set(x, m.dt)
         [] first = 15 /\ kk = 10 ->
              IF pressed = {} THEN m
              ELSE set(x, CHOOSE k \in pressed : \A o \in pressed : k <= o)
         [] first = 15 /\ kk = 21 -> [m EXCEPT !.dt = m.v[x], !.pc = Word(m.pc + 2)]
         [] first = 15 /\ kk = 24 -> [m EXCEPT !.st = m.v[x], !.pc = Word(m.pc + 2)]
         [] first = 15 /\ kk = 30 ->
              [m EXCEPT !.i = Word(m.i + m.v[x]), !.pc = Word(m.pc + 2)]
         [] first = 15 /\ kk = 41 ->
              [m EXCEPT !.i = Byte(m.v[x] * 5), !.pc = Word(m.pc + 2)]
         [] first = 15 /\ kk = 51 -> [m EXCEPT !.pc = Word(m.pc + 2)]
         [] first = 15 /\ kk = 85 ->
              [m EXCEPT !.memory = storeRegs(m, 0, x).memory, !.pc = Word(m.pc + 2)]
         [] OTHER ->
              [m EXCEPT !.v = loadRegs(m, 0, x).v, !.pc = Word(m.pc + 2)]

\* Step() up to the fetch: Render when drawFlag is set, Poll, the timers
mainStepBegin(m, keys) ==
    [m EXCEPT !.drawFlag = FALSE, !.keyState = keys,
              !.dt = IF m.dt # 0 THEN m.dt - 1 ELSE 0,
              !.st = IF m.st # 0 THEN m.st - 1 ELSE 0]

\* The message of the panic Step() ends in, or ""
mainStepPanic(m, keys) ==
    LET m1 == mainStepBegin(m, keys) IN
    IF readOpcodePanics(m1, m1.pc) THEN "index out of range"
    ELSE mainExecPanic(m1, readOpcode(m1, m1.pc))

\* Step() when it returns
mainStep(m, keys, rnd) ==
    LET m1 == mainStepBegin(m, keys)
        m2 == mainExec(m1, readOpcode(m1, m1.pc), rnd)
    IN [m2 EXCEPT !.shouldCloseFlag = m2.shouldCloseFlag \/ 16 \in keys,
                  !.isPausedFlag = m2.isPausedFlag \/ 17 \in keys]

\* last before any Step.  Its fields: op the opcode the last Step fetched,
\* fault the panic it ended in or "", before and after the machine around it
\* (less the keys, which every Step polls anew), rendered whether it called
\* Display.Render, changed whether a 00E0 or a Dxyn had been executed since
\* the Render before, and touched the same after this Step.
NoStep == [op |-> -1, fault |-> "", before |-> initalize([isPausedFlag |-> FALSE]),
           after |-> initalize([isPausedFlag |-> FALSE]), rendered |-> FALSE,
           changed |-> FALSE, touched |-> FALSE]

\* The history of a Step() on the machine c that ends in fault or in after
Stepped(keys, fault, after) ==
    LET op == IF readOpcodePanics(c, c.pc) THEN -1 ELSE readOpcode(c, c.pc) IN
    [op |-> op, fault |-> fault, before |-> [c EXCEPT !.keyState = {}],
     after |-> [after EXCEPT !.keyState = {}], rendered |-> c.drawFlag,
     changed |-> last.touched,
     touched |-> \/ last.touched /\ ~c.drawFlag
                 \/ fault = "" /\ (op = 224 \/ OpFirst(op) = 13)]

\* Run(program) up to its loop: initalize, the copy of the program to 0x200,
\* Render of the blank screen
MainRun(t) ==
    /\ Up
    /\ At(t, "idle")
    /\ th[t].calls < MaxCalls
    /\ c' = load(initalize(c), rom)
    /\ host' = IF loadPanics(rom) THEN "index out of range" ELSE host
    /\ th' = [th EXCEPT ![t].at = "main_loop", ![t].calls = th[t].calls + 1]
    /\ last' = NoStep
    /\ UNCHANGED <<rom, shadow, tk>>

\* One iteration of the loop of Run: Step(), or when paused Poll and what
\* the key of the host asks for
MainLoop(t) ==
    /\ Up
    /\ At(t, "main_loop")
    /\ ~c.shouldCloseFlag
    /\ \E keys \in KeyStates, stepKeys \in KeyStates, rnd \in RandomBytes :
          LET steps == ~c.isPausedFlag \/ (18 \notin keys /\ 20 \notin keys /\ 19 \in keys)
              polled == IF c.isPausedFlag THEN [c EXCEPT !.keyState = keys] ELSE c
          IN
          /\ (c.isPausedFlag \/ keys = {})
          /\ (steps \/ stepKeys = {})
          /\ (Draws(readOpcode(c, c.pc)) \/ rnd = 0)
          /\ IF ~steps
             THEN /\ c' = IF 18 \in keys THEN [polled EXCEPT !.isPausedFlag = FALSE]
                          ELSE polled
                  /\ UNCHANGED <<host, last>>
             ELSE IF mainStepPanic(polled, stepKeys) # ""
             THEN /\ host' = mainStepPanic(polled, stepKeys)
                  /\ c' = polled
                  /\ last' = Stepped(stepKeys, host', polled)
             ELSE /\ c' = mainStep(polled, stepKeys, rnd)
                  /\ last' = Stepped(stepKeys, "", c')
                  /\ host' = host
    /\ UNCHANGED <<th, rom, shadow, tk>>

\* The loop of Run ends when shouldCloseFlag is set, and Run returns
MainReturn(t) ==
    /\ Up
    /\ At(t, "main_loop")
    /\ c.shouldCloseFlag
    /\ th' = [th EXCEPT ![t].at = "idle"]
    /\ UNCHANGED <<c, rom, host, last, shadow, tk>>

NextMain == \E t \in Threads : MainRun(t) \/ MainLoop(t) \/ MainReturn(t)

\* One goroutine runs one of
\*   LD I,0; DRW V0,V0,5; CLS; DRW V0,V0,5; JP 0x208
\*   LD I,0x300; DRW V0,V0,2; JP 0x204                 (a sprite of no pixels)
\*   LD V0,60; LD V1,30; LD I,5; DRW V0,V1,5; DRW V0,V1,5; LD V2,K; JP 0x20C
\*   LD V0,5; LD DT,V0; CALL 0x208; JP 0x206; SKP V0; RND V1,3; RET
InitMain ==
    /\ c = [initalize([isPausedFlag |-> FALSE]) EXCEPT !.pc = 0, !.memory = ZeroMemory]
    /\ th = [t \in Threads |-> IF t = 1 THEN Idle(0) ELSE Off]
    /\ rom \in { << 160, 0, 208, 5, 0, 224, 208, 5, 18, 8 >>,
                 << 163, 0, 208, 2, 18, 4 >>,
                 << 96, 60, 97, 30, 160, 5, 208, 21, 208, 21, 242, 10, 18, 12 >>,
                 << 96, 5, 240, 21, 34, 8, 18, 6, 224, 158, 193, 3, 0, 238 >> }
    /\ host = "up"
    /\ last = NoStep
    /\ shadow = << >>
    /\ tk = NoTimers

SpecMain == InitMain /\ [][NextMain]_vars

\* C35: a Step calls Display.Render exactly when the screen has changed since
\* it was last rendered, that is when a 00E0 or a Dxyn has been executed since;
\* 00E0 and Dxyn leave the flag set that makes the next Step render, once,
\* and clear it.
C35_RenderWhenChanged ==
    /\ last.op # -1 => (last.rendered <=> last.changed)
    /\ (last.fault = "" /\ (last.op = 224 \/ OpFirst(last.op) = 13)) => c.drawFlag
    /\ last.rendered => ~last.after.drawFlag \/ last.op = 224 \/ OpFirst(last.op) = 13

\* C36: Dxyn of package main takes the highest bit of a sprite byte as its
\* leftmost pixel: bit 7-j of row i is XORed into the cell of row (y+i) mod 32
\* and column (x+j) mod 64, for every j in 0 .. 7, so that all eight bits of
\* the row reach the screen.
C36_PixelsMSBFirst ==
    (last.op # -1 /\ last.fault = "" /\ OpFirst(last.op) = 13) =>
        LET sprite == spriteOf(last.before, OpN(last.op))
            x == last.before.v[OpX(last.op)]
            y == last.before.v[OpY(last.op)]
        IN \A i \in 0 .. (Len(sprite) - 1), j \in 0 .. 7 :
              LET cell == << (y + i) % screenH, (x + j) % screenW >> IN
              (cell \in last.after.screen) <=>
                  ((cell \in last.before.screen) # (Bit(sprite[i + 1], 7 - j) = 1))

----------------------------------------------------------------------------
(* The machine of src/cpu/cpu.go when its goroutines and its ticker go on *)

\* A step of goroutine t inside the method it has called
Proceed(t) ==
    \/ RunReset(t) \/ RunLoad(t) \/ ResumeCheck(t) \/ ResumeSet(t)
    \/ LoopCheck(t) \/ LoopWait(t) \/ HaltStep(t) \/ StepCheck(t)
    \/ StepReturn(t) \/ CycleTimers(t) \/ CycleExec(t)

\* One goroutine runs one of
\*   LD V0,200; 0x0000
\*   LD ST,V0 with V0 = 0; JP 0x202
\*   LD V0,3; LD ST,V0; JP 0x204
InitLive ==
    /\ c = NewChip8
    /\ th = [t \in Threads |-> IF t = 1 THEN Idle(0) ELSE Off]
    /\ rom \in {<< 96, 200, 0, 0 >>, << 240, 24, 18, 2 >>,
                << 96, 3, 240, 24, 18, 4 >>}
    /\ host = "up"
    /\ last = NoCycle
    /\ shadow = << >>
    /\ tk = NoTimers

\* The ticker keeps ticking, and a goroutine that is inside a method goes on:
\* the Go scheduler does not starve it
SpecLive ==
    /\ InitLive
    /\ [][Next]_vars
    /\ WF_vars(ClockTick)
    /\ \A t \in Threads : WF_vars(Proceed(t))

\* C37: a cycle that fetches 0x0000 executes no instruction: it leaves PC, the
\* registers, the memory and the stack as they were after the timers of that
\* cycle, and only stops the machine when it is running; the run loop that
\* fetched it exits, and Resume and Run return.
C37_EofHalts ==
    /\ [][\A t \in Threads :
            (CycleExec(t) /\ cyclePanic(c) = ""
                /\ readOpcode(c, c.pc) = eofInstruction) =>
                /\ c' = [c EXCEPT !.isStoppedFlag = TRUE]
                /\ last' = last /\ shadow' = shadow /\ tk' = tk]_vars
    /\ \A t \in Threads :
          (At(t, "cycle_exec") /\ th[t].ret = "loop" /\ cyclePanic(c) = ""
              /\ readOpcode(c, c.pc) = eofInstruction) ~> At(t, "idle")

\* Run has returned from the program LD V0,200; 0x0000: the machine stands
\* stopped at the 0x0000 of 0x202, after the one instruction before it
C37_Witness ==
    /\ At(1, "idle") /\ th[1].calls = 1
    /\ ~IsRunning(c)
    /\ c.pc = programStartAddr + 2 /\ readOpcode(c, c.pc) = eofInstruction
    /\ last.op = 6 * 4096 + 200 /\ last.after.pc = c.pc

\* C39: the speaker is not left sounding with ST at 0 while the machine runs
\* on: whenever its last call was StartSound() and ST is 0, as after an Fx18
\* with Vx = 0 or after a reset() during a sound, a StopSound() follows.
C39_SoundEnds ==
    (c.speaker = "StartSound" /\ c.st = 0) ~>
        (c.speaker = "StopSound" \/ ~IsRunning(c))

\* C38: whatever Vx and Vy in 0 .. 255 and whatever sprite of up to 15 rows,
\* a Dxyn writes (and so reads) video memory only at 0xF00 .. 0xFFF: no index
\* leaves the array, and the stack, the font and the program are untouched.
C38_DrawStaysInFrame ==
    IsDRW(last) =>
        /\ DOMAIN last.after.memory \subseteq Addr
        /\ \A a \in (DOMAIN last.before.memory \cup DOMAIN last.after.memory)
                        \ VideoAddr :
              Rd(last.after.memory, a) = Rd(last.before.memory, a)

\* A sprite of 15 rows was drawn from the bottom row of the screen on, at the
\* right edge, and changed the framebuffer
C38_Witness ==
    /\ IsDRW(last)
    /\ Len(DrwSprite(last.before, last.op)) = 15
    /\ DrwY(last.before, last.op) = 255 /\ DrwX(last.before, last.op) = 255
    /\ \E a \in VideoAddr : Rd(last.after.memory, a) # Rd(last.before.memory, a)

====
